---- MODULE Spec2Model ----
(***************************************************************************)
(* axidraw-over-tcp (src/src/main.rs): an HTTP endpoint, POST /batch-queue, *)
(* splits a request body into command lines and sends them on an mpsc       *)
(* channel; one relay thread receives the commands in order and, for each,  *)
(* writes "<command>\r" to the serial port and waits for one line of reply. *)
(*                                                                          *)
(* Before that, get_serial_port scans the serial ports once a second until  *)
(* one matches, and opens it.                                               *)
(*                                                                          *)
(* Strings are sequences of bytes (a Rust String is its UTF-8 encoding).    *)
(* A line of the device's reply is modelled whole, by its text with the     *)
(* line ending already stripped, as BufRead::lines yields it.  A product    *)
(* string is a sequence of characters; a port name is compared whole.       *)
(***************************************************************************)
EXTENDS Integers, Sequences, FiniteSets

VARIABLES
    hpc,        \* per request: "idle" (not arrived), "loop", "done" (answered), "panicked"
    body,       \* per request: the bytes of its body (command_bytes)
    todo,       \* per request: the segments the for loop has not visited yet
    status,     \* per request: 0 (no response yet), 200 or 400
    after,      \* per request: the requests already answered when it arrived (history)
    queue,      \* the channel of line 41: messages sent and not yet received
    log,        \* every message ever sent on the channel, in send order (history)
    rpc,        \* relay thread: "NotStarted", "Idle", "Writing", "AwaitingResponse", "Dead"
    cur,        \* relay thread: the command of the current exchange (command)
    timedOut,   \* relay thread: a read of the current wait has failed (timed out)
    response,   \* relay thread: the line the last completed wait ended on (response),
                \* with the number n of the write whose wait it ended (history)
    written,    \* everything written and flushed to the serial port, one entry per write
    rx,         \* lines the device has sent that the host has not read yet, each
                \* with the number of the write it replies to (history)
    boot,       \* main thread: "Scanning", "Sleeping", "Opening", "Running", "Aborted"
    device,     \* cli.device: <<>> (None) or <<name>> (Some(name))
    scan,       \* the result of the available_ports() call of this loop iteration
    selected,   \* port_info: <<>> in the loop, <<p>> once the loop has broken with p
    panic_message   \* what the panic of the main thread printed, <<>> if none

vars == <<hpc, body, todo, status, after, queue, log, rpc, cur, timedOut,
          response, written, rx, boot, device, scan, selected, panic_message>>

handlerVars == <<hpc, body, todo, status, after>>
relayVars == <<rpc, cur, timedOut, response>>
bootVars == <<boot, device, scan, selected, panic_message>>

----------------------------------------------------------------------------
(* Bytes *)

CR == 13
LF == 10

\* The bounds of the model.
MaxBodyLen == 4         \* longest request body, in bytes, of the ingestion runs
MaxBatch == 2           \* most commands in one request body of the pipeline runs
MaxRx == 2              \* most unread lines the serial input buffer holds
MaxPorts == 2           \* most ports one scan lists

\* 'a', LF, CR, and the two bytes of U+00E9: 0xC3 0xA9 is valid UTF-8, a lone
\* 0xA9 or a 0xC3 that no continuation byte follows is not.
IngestAlphabet == {97, LF, CR, 195, 169}

Requests == {1, 2}
IngestRequests == {1}

RECURSIVE SeqsUpTo(_, _)
SeqsUpTo(S, n) ==
    IF n = 0 THEN {<<>>}
    ELSE LET shorter == SeqsUpTo(S, n - 1)
         IN  shorter \cup {Append(s, x) : s \in shorter, x \in S}

Bodies == SeqsUpTo(IngestAlphabet, MaxBodyLen)

\* The body of n commands "a", "b", ...: "a\nb\n..." without a final line feed.
RECURSIVE BatchOf(_)
BatchOf(n) ==
    IF n = 0 THEN <<>>
    ELSE IF n = 1 THEN <<97>>
    ELSE BatchOf(n - 1) \o <<LF, 96 + n>>

\* The bodies of the pipeline runs: the batches, and one body that is rejected.
PipeBodies == {BatchOf(n) : n \in 0..MaxBatch} \cup {<<97, CR>>}

\* The lines of a device reply: a blank line and an acknowledgment.
ReplyLines == {"", "OK"}

\* "EiBotBoard", the string of line 70.
Marker == <<"E", "i", "B", "o", "t", "B", "o", "a", "r", "d">>

\* The names of the serial ports of the machine.
PortNames == {"ttyACM0", "ttyS0"}

\* usb_port_info.product, an Option<String>: None, Some(""), the marker alone,
\* the marker inside a longer string, the marker short of its last character,
\* and the marker in lower case.
Products ==
    { <<>>,
      << <<>> >>,
      <<Marker>>,
      << <<"x">> \o Marker \o <<"y">> >>,
      << SubSeq(Marker, 1, Len(Marker) - 1) >>,
      << <<"e", "i", "b", "o", "t", "b", "o", "a", "r", "d">> >> }

\* SerialPortInfo: the port's name and its SerialPortType; product is the
\* field of UsbPortInfo, which the other port types do not carry.
UsbPort(name, product) == [port_name |-> name, port_type |-> "UsbPort", product |-> product]
OtherPort(name, type) == [port_name |-> name, port_type |-> type, product |-> <<>>]

PortInfos ==
    {UsbPort(n, p) : n \in PortNames, p \in Products}
        \cup {OtherPort(n, t) : n \in PortNames, t \in {"PciPort", "Unknown"}}

\* What available_ports() can return: Err, or Ok of a list of ports.
ScanResults ==
    {[ok |-> FALSE, ports |-> <<>>]}
        \cup {[ok |-> TRUE, ports |-> l] : l \in SeqsUpTo(PortInfos, MaxPorts)}

NoScan == [ok |-> TRUE, ports |-> <<>>]

\* The values of --device: absent, or the name of a port.
Devices == {<<>>} \cup {<<n>> : n \in PortNames}

\* The port the pipeline runs start with.
BoardPort == UsbPort("ttyACM0", <<Marker>>)

NoCommand == [rid |-> 0, seg |-> 0, cmd |-> <<>>]
NoLine == [text |-> "none", for |-> 0, n |-> 0]

----------------------------------------------------------------------------
(* The pure parts of the request handler *)

IsCont(b) == b >= 128 /\ b <= 191

\* String::from_utf8(..).is_ok(): the bytes are well-formed UTF-8.
RECURSIVE from_utf8(_)
from_utf8(bytes) ==
    IF bytes = <<>> THEN TRUE
    ELSE LET b == bytes[1]
             n == Len(bytes)
             cont(i) == i <= n /\ IsCont(bytes[i])
             in(i, lo, hi) == i <= n /\ bytes[i] >= lo /\ bytes[i] <= hi
             rest(k) == from_utf8(SubSeq(bytes, k + 1, n))
         IN  IF b < 128 THEN rest(1)
             ELSE IF b >= 194 /\ b <= 223 THEN cont(2) /\ rest(2)
             ELSE IF b = 224 THEN in(2, 160, 191) /\ cont(3) /\ rest(3)
             ELSE IF b = 237 THEN in(2, 128, 159) /\ cont(3) /\ rest(3)
             ELSE IF b >= 225 /\ b <= 239 THEN cont(2) /\ cont(3) /\ rest(3)
             ELSE IF b = 240 THEN in(2, 144, 191) /\ cont(3) /\ cont(4) /\ rest(4)
             ELSE IF b >= 241 /\ b <= 243 THEN cont(2) /\ cont(3) /\ cont(4) /\ rest(4)
             ELSE IF b = 244 THEN in(2, 128, 143) /\ cont(3) /\ cont(4) /\ rest(4)
             ELSE FALSE

\* str::contains(char) for a one-byte char.
contains(s, c) == \E i \in 1..Len(s) : s[i] = c

\* Variant of split: str::rsplit(char), the same segments from the back.
RECURSIVE rsplit(_, _)
rsplit(s, sep) ==
    IF ~contains(s, sep) THEN <<s>>
    ELSE LET i == CHOOSE k \in 1..Len(s) :
                      s[k] = sep /\ \A j \in (k + 1)..Len(s) : s[j] # sep
         IN  <<SubSeq(s, i + 1, Len(s))>> \o rsplit(SubSeq(s, 1, i - 1), sep)

\* str::split(char), collected: the segments between the separators, the empty
\* ones included; a string without separator is its own single segment.
RECURSIVE split(_, _)
split(s, sep) ==
    IF ~contains(s, sep) THEN <<s>>
    ELSE LET i == CHOOSE k \in 1..Len(s) :
                      s[k] = sep /\ \A j \in 1..(k - 1) : s[j] # sep
         IN  <<SubSeq(s, 1, i - 1)>> \o split(SubSeq(s, i + 1, Len(s)), sep)

\* Variant of handler: no check for a carriage return.
handler_accepts_cr(command_bytes) ==
    IF from_utf8(command_bytes)
    THEN [reject |-> FALSE, segments |-> split(command_bytes, LF)]
    ELSE [reject |-> TRUE, segments |-> <<>>]

\* Variant of handler: the body is taken as text without validation.
handler_unchecked(command_bytes) ==
    IF contains(command_bytes, CR)
    THEN [reject |-> TRUE, segments |-> <<>>]
    ELSE [reject |-> FALSE, segments |-> split(command_bytes, LF)]

\* What the handler decides before its loop: the rejection, or the segments to
\* visit.
handler(command_bytes) ==
    IF from_utf8(command_bytes)
    THEN IF contains(command_bytes, CR)
         THEN [reject |-> TRUE, segments |-> <<>>]
         ELSE [reject |-> FALSE, segments |-> split(command_bytes, LF)]
    ELSE [reject |-> TRUE, segments |-> <<>>]

\* Variant of format: a CR LF terminator.
format_crlf(command) == command \o <<CR, LF>>

\* format!("{}\r", command)
format(command) == Append(command, CR)

----------------------------------------------------------------------------
(* The channel *)

\* Variant of send: the message goes to the front of the channel.
send_front(q, m) == <<m>> \o q

\* Sender::send: the message goes to the back of the channel.
send(q, m) == Append(q, m)

\* Variant of recv: the message at the back.
recv_last(q) == [msg |-> q[Len(q)], rest |-> SubSeq(q, 1, Len(q) - 1)]

\* Receiver::recv on a non-empty channel: the message at the front.
recv(q) == [msg |-> Head(q), rest |-> Tail(q)]

\* str::contains with a string pattern: pat occurs in s.
contains_str(s, pat) ==
    \E k \in 0..(Len(s) - Len(pat)) : SubSeq(s, k + 1, k + Len(pat)) = pat

\* Option::unwrap_or.
unwrap_or(opt, default) == IF opt = <<>> THEN default ELSE opt[1]

\* Result::unwrap_or_default on the result of available_ports(): the empty
\* list when the scan failed.
unwrap_or_default(result) == IF result.ok THEN result.ports ELSE <<>>

\* Variant of port_filter: with a name given, a board on another port is
\* accepted as well.
port_filter_or_board(dev, port_info) ==
    \/ dev # <<>> /\ port_info.port_name = dev[1]
    \/ /\ port_info.port_type = "UsbPort"
       /\ contains_str(unwrap_or(port_info.product, <<>>), Marker)

\* The closure port_filter of lines 62-74.
port_filter(dev, port_info) ==
    IF dev # <<>>
    THEN port_info.port_name = dev[1]
    ELSE IF port_info.port_type = "UsbPort"
    THEN contains_str(unwrap_or(port_info.product, <<>>), Marker)
    ELSE FALSE

\* Variant of find: the last element that satisfies the predicate.
rfind(ports, dev) ==
    LET hits == {i \in 1..Len(ports) : port_filter(dev, ports[i])}
    IN  IF hits = {} THEN <<>>
        ELSE << ports[CHOOSE i \in hits : \A j \in hits : j <= i] >>

\* Iterator::find with port_filter, then cloned(): the first element that
\* satisfies the predicate, an Option.
find(ports, dev) ==
    LET hits == {i \in 1..Len(ports) : port_filter(dev, ports[i])}
    IN  IF hits = {} THEN <<>>
        ELSE << ports[CHOOSE i \in hits : \A j \in hits : i <= j] >>

----------------------------------------------------------------------------

\* The state in which the port is open, the relay thread spawned and the
\* listener bound: the start of the pipeline runs.
Init ==
    /\ hpc = [r \in Requests |-> "idle"]
    /\ body = [r \in Requests |-> <<>>]
    /\ todo = [r \in Requests |-> <<>>]
    /\ status = [r \in Requests |-> 0]
    /\ after = [r \in Requests |-> {}]
    /\ queue = <<>>
    /\ log = <<>>
    /\ rpc = "Idle"
    /\ cur = NoCommand
    /\ timedOut = FALSE
    /\ response = NoLine
    /\ written = <<>>
    /\ rx = <<>>
    /\ boot = "Running"
    /\ device = <<>>
    /\ scan = NoScan
    /\ selected = <<BoardPort>>
    /\ panic_message = <<>>

\* The state at the start of main, with any --device.
InitBoot ==
    /\ hpc = [r \in Requests |-> "idle"]
    /\ body = [r \in Requests |-> <<>>]
    /\ todo = [r \in Requests |-> <<>>]
    /\ status = [r \in Requests |-> 0]
    /\ after = [r \in Requests |-> {}]
    /\ queue = <<>>
    /\ log = <<>>
    /\ rpc = "NotStarted"
    /\ cur = NoCommand
    /\ timedOut = FALSE
    /\ response = NoLine
    /\ written = <<>>
    /\ rx = <<>>
    /\ boot = "Scanning"
    /\ device \in Devices
    /\ scan = NoScan
    /\ selected = <<>>
    /\ panic_message = <<>>

----------------------------------------------------------------------------
(* get_serial_port, lines 61-94, and the rest of main, lines 41-58 *)

\* Variant of Scan: a scan that fails is unwrapped and panics.
ScanUnwrap(result) ==
    /\ boot = "Scanning"
    /\ scan' = result
    /\ IF result.ok
       THEN LET port_info == find(result.ports, device)
            IN  /\ selected' = port_info
                /\ boot' = IF port_info # <<>> THEN "Opening" ELSE "Sleeping"
                /\ UNCHANGED panic_message
       ELSE /\ boot' = "Aborted"
            /\ panic_message' = <<"called Result::unwrap() on an Err value">>
            /\ UNCHANGED selected
    /\ UNCHANGED <<handlerVars, queue, log, relayVars, written, rx, device>>

\* One iteration of the loop of lines 76-88 up to its if: the ports are
\* listed and the first that passes port_filter, if any, breaks the loop.
Scan(result) ==
    /\ boot = "Scanning"
    /\ scan' = result
    /\ LET port_info == find(unwrap_or_default(result), device)
       IN  /\ selected' = port_info
           /\ boot' = IF port_info # <<>> THEN "Opening" ELSE "Sleeping"
    /\ UNCHANGED <<handlerVars, queue, log, relayVars, written, rx, device, panic_message>>

\* sleep(1s), line 86, and the next iteration; the list is dropped.
Sleep ==
    /\ boot = "Sleeping"
    /\ boot' = "Scanning"
    /\ scan' = NoScan
    /\ UNCHANGED <<handlerVars, queue, log, relayVars, written, rx, device, selected, panic_message>>

\* open() returns Ok: get_serial_port returns, main creates the channel,
\* spawns the relay thread and serves.
OpenOk ==
    /\ boot = "Opening"
    /\ boot' = "Running"
    /\ rpc' = "Idle"
    /\ scan' = NoScan
    /\ UNCHANGED <<handlerVars, queue, log, cur, timedOut, response, written, rx,
                   device, selected, panic_message>>

\* Variant of OpenErr: the port that did not open is given up and the scan
\* resumes after a sleep.
OpenErrRescans ==
    /\ boot = "Opening"
    /\ boot' = "Sleeping"
    /\ selected' = <<>>
    /\ UNCHANGED <<handlerVars, queue, log, relayVars, written, rx, device, scan, panic_message>>

\* open() returns Err: unwrap_or_else panics on the main thread.
OpenErr ==
    /\ boot = "Opening"
    /\ boot' = "Aborted"
    /\ panic_message' = <<"Could not create port on ", selected[1].port_name>>
    /\ UNCHANGED <<handlerVars, queue, log, relayVars, written, rx, device, scan, selected>>

----------------------------------------------------------------------------
(* The request handler, lines 99-129 *)

\* A request arrives with body b: the handler decodes it and either answers
\* 400 or enters its loop over the segments.
Receive(r, b) ==
    /\ boot = "Running"
    /\ hpc[r] = "idle"
    /\ LET plan == handler(b)
       IN  /\ body' = [body EXCEPT ![r] = b]
           /\ after' = [after EXCEPT ![r] = {q \in Requests : status[q] # 0}]
           /\ IF plan.reject
              THEN /\ hpc' = [hpc EXCEPT ![r] = "done"]
                   /\ status' = [status EXCEPT ![r] = 400]
                   /\ todo' = todo
              ELSE /\ hpc' = [hpc EXCEPT ![r] = "loop"]
                   /\ status' = status
                   /\ todo' = [todo EXCEPT ![r] = plan.segments]
    /\ UNCHANGED <<queue, log, relayVars, written, rx>>
    /\ UNCHANGED bootVars

\* A request arrives with one of the given bodies.
Arrive(r, bodies) ==
    /\ hpc[r] = "idle"
    /\ \E b \in bodies : Receive(r, b)

\* Variant of HandlerLoop: a channel of capacity one (sync_channel(1)), on
\* which a send waits while a message is in the channel.
HandlerLoopBounded(r) ==
    /\ hpc[r] = "loop"
    /\ todo[r] # <<>>
    /\ LET command == Head(todo[r])
       IN  IF command = <<>>
           THEN /\ todo' = [todo EXCEPT ![r] = Tail(todo[r])]
                /\ UNCHANGED <<hpc, queue, log>>
           ELSE IF rpc = "Dead"
           THEN /\ hpc' = [hpc EXCEPT ![r] = "panicked"]
                /\ UNCHANGED <<todo, queue, log>>
           ELSE /\ queue = <<>>
                /\ queue' = send(queue, [rid |-> r, seg |-> Len(split(body[r], LF)) - Len(todo[r]) + 1, cmd |-> command])
                /\ log' = Append(log, [rid |-> r, seg |-> Len(split(body[r], LF)) - Len(todo[r]) + 1, cmd |-> command])
                /\ todo' = [todo EXCEPT ![r] = Tail(todo[r])]
                /\ hpc' = hpc
    /\ UNCHANGED <<body, status, after, relayVars, written, rx>>
    /\ UNCHANGED bootVars

\* One iteration of the for loop: an empty segment is skipped, any other is
\* sent on the channel.  The send fails once the relay thread has panicked and
\* dropped the receiver, and the unwrap then panics the handler.
HandlerLoop(r) ==
    /\ hpc[r] = "loop"
    /\ todo[r] # <<>>
    /\ LET command == Head(todo[r])
       IN  IF command = <<>>
           THEN /\ todo' = [todo EXCEPT ![r] = Tail(todo[r])]
                /\ UNCHANGED <<hpc, queue, log>>
           ELSE IF rpc = "Dead"
           THEN /\ hpc' = [hpc EXCEPT ![r] = "panicked"]
                /\ UNCHANGED <<todo, queue, log>>
           ELSE /\ queue' = send(queue, [rid |-> r, seg |-> Len(split(body[r], LF)) - Len(todo[r]) + 1, cmd |-> command])
                /\ log' = Append(log, [rid |-> r, seg |-> Len(split(body[r], LF)) - Len(todo[r]) + 1, cmd |-> command])
                /\ todo' = [todo EXCEPT ![r] = Tail(todo[r])]
                /\ hpc' = hpc
    /\ UNCHANGED <<body, status, after, relayVars, written, rx>>
    /\ UNCHANGED bootVars

\* Variant of HandlerRespond: the 200 is produced as soon as the body is
\* accepted, and the loop goes on after it.
HandlerRespondFirst(r) ==
    /\ hpc[r] = "loop"
    /\ status[r] = 0
    /\ status' = [status EXCEPT ![r] = 200]
    /\ UNCHANGED <<hpc, body, todo, after, queue, log, relayVars, written, rx>>
    /\ UNCHANGED bootVars

\* The loop is over: the handler answers 200.
HandlerRespond(r) ==
    /\ hpc[r] = "loop"
    /\ todo[r] = <<>>
    /\ hpc' = [hpc EXCEPT ![r] = "done"]
    /\ status' = [status EXCEPT ![r] = 200]
    /\ UNCHANGED <<body, todo, after, queue, log, relayVars, written, rx>>
    /\ UNCHANGED bootVars

----------------------------------------------------------------------------
(* The relay thread, lines 43-47 and 138-156 *)

\* command_receiver.recv(): blocks while the channel is empty.
RelayRecv ==
    /\ rpc = "Idle"
    /\ queue # <<>>
    /\ cur' = recv(queue).msg
    /\ queue' = recv(queue).rest
    /\ rpc' = "Writing"
    /\ UNCHANGED <<handlerVars, log, timedOut, response, written, rx>>
    /\ UNCHANGED bootVars

\* write_all and flush succeed: the command and its terminator are on the wire.
RelayWrite ==
    /\ rpc = "Writing"
    /\ written' = Append(written, [rid |-> cur.rid, seg |-> cur.seg, bytes |-> format(cur.cmd)])
    /\ rpc' = "AwaitingResponse"
    /\ timedOut' = FALSE
    /\ UNCHANGED <<handlerVars, queue, log, cur, response, rx>>
    /\ UNCHANGED bootVars

\* Variant of RelayWriteFail: the failed command is dropped and the relay
\* goes on with the next one.
RelayWriteFailDropsCommand ==
    /\ rpc = "Writing"
    /\ rpc' = "Idle"
    /\ UNCHANGED <<handlerVars, queue, log, cur, timedOut, response, written, rx>>
    /\ UNCHANGED bootVars

\* try_clone, write_all or flush fails: the unwrap panics the thread, which
\* drops the receiver and with it the messages still in the channel.  Bytes
\* of a failed write that did reach the wire are not recorded in written.
RelayWriteFail ==
    /\ rpc = "Writing"
    /\ rpc' = "Dead"
    /\ queue' = <<>>
    /\ UNCHANGED <<handlerVars, log, cur, timedOut, response, written, rx>>
    /\ UNCHANGED bootVars

\* Variant of RelayReadLine: the wait ends only on the line "ok"; any other
\* line is consumed and the wait goes on.
RelayReadLineWantsLowercase ==
    /\ rpc = "AwaitingResponse"
    /\ rx # <<>>
    /\ IF Head(rx).text = "ok"
       THEN /\ response' = [text |-> Head(rx).text, for |-> Head(rx).for, n |-> Len(written)]
            /\ rx' = <<>>
            /\ rpc' = "Idle"
       ELSE /\ rx' = Tail(rx)
            /\ UNCHANGED <<rpc, response>>
    /\ UNCHANGED <<handlerVars, queue, log, cur, timedOut, written>>
    /\ UNCHANGED bootVars

\* Variant of RelayReadLine: a blank line is skipped and the wait goes on.
RelayReadLineSkipsBlank ==
    /\ rpc = "AwaitingResponse"
    /\ rx # <<>>
    /\ IF Head(rx).text = ""
       THEN /\ rx' = Tail(rx)
            /\ UNCHANGED <<rpc, response>>
       ELSE /\ response' = [text |-> Head(rx).text, for |-> Head(rx).for, n |-> Len(written)]
            /\ rx' = <<>>
            /\ rpc' = "Idle"
    /\ UNCHANGED <<handlerVars, queue, log, cur, timedOut, written>>
    /\ UNCHANGED bootVars

\* serial_reader_lines.next() yields Some(Ok(line)): the wait ends on that
\* line.  The BufReader has taken everything the port had to give; what it
\* holds beyond the line is dropped with it when the function returns.
RelayReadLine ==
    /\ rpc = "AwaitingResponse"
    /\ rx # <<>>
    /\ response' = [text |-> Head(rx).text, for |-> Head(rx).for, n |-> Len(written)]
    /\ rx' = <<>>
    /\ rpc' = "Idle"
    /\ UNCHANGED <<handlerVars, queue, log, cur, timedOut, written>>
    /\ UNCHANGED bootVars

\* Variant of RelayReadTimeout: the second timeout of a wait ends it.
RelayReadTimeoutTwice ==
    /\ rpc = "AwaitingResponse"
    /\ rx = <<>>
    /\ timedOut' = TRUE
    /\ rpc' = IF timedOut THEN "Idle" ELSE rpc
    /\ UNCHANGED <<handlerVars, queue, log, cur, response, written, rx>>
    /\ UNCHANGED bootVars

\* Variant of RelayReadTimeout: the timeout ends the wait.
RelayReadTimeoutGivesUp ==
    /\ rpc = "AwaitingResponse"
    /\ rx = <<>>
    /\ timedOut' = TRUE
    /\ rpc' = "Idle"
    /\ UNCHANGED <<handlerVars, queue, log, cur, response, written, rx>>
    /\ UNCHANGED bootVars

\* next() yields Some(Err(_)), the port's one-second timeout or any other
\* failed read: the loop goes on.
RelayReadTimeout ==
    /\ rpc = "AwaitingResponse"
    /\ rx = <<>>
    /\ timedOut' = TRUE
    /\ UNCHANGED <<handlerVars, queue, log, rpc, cur, response, written, rx>>
    /\ UNCHANGED bootVars

\* next() yields None (the port reads end of file): the unwrap panics.
RelayReadEof ==
    /\ rpc = "AwaitingResponse"
    /\ rx = <<>>
    /\ rpc' = "Dead"
    /\ queue' = <<>>
    /\ UNCHANGED <<handlerVars, log, cur, timedOut, response, written, rx>>
    /\ UNCHANGED bootVars

----------------------------------------------------------------------------
(* The device: once it has received a command, and until it receives the   *)
(* next one, it may send lines in reply to it (one or more, blank or not).  *)
(* A line is tagged with the number of the command it replies to.           *)

DeviceReply(text) ==
    /\ written # <<>>
    /\ Len(rx) < MaxRx
    /\ rx' = Append(rx, [text |-> text, for |-> Len(written)])
    /\ UNCHANGED <<handlerVars, queue, log, relayVars, written>>
    /\ UNCHANGED bootVars

----------------------------------------------------------------------------

\* The system with requests reqs, each with a body of bodies, and a device
\* whose reply lines are drawn from lines.
System(reqs, bodies, lines) ==
    \/ \E r \in reqs : Arrive(r, bodies)
    \/ \E r \in reqs : HandlerLoop(r)
    \/ \E r \in reqs : HandlerRespond(r)
    \/ RelayRecv
    \/ RelayWrite
    \/ RelayWriteFail
    \/ RelayReadLine
    \/ RelayReadTimeout
    \/ RelayReadEof
    \/ \E text \in lines : DeviceReply(text)

\* The pipeline: two requests handled concurrently, the relay and the device.
Next == System(Requests, PipeBodies, ReplyLines)

Spec == Init /\ [][Next]_vars

\* The pipeline with a device that sends no blank line.
NextAck == System(Requests, PipeBodies, {"OK"})

SpecAck == Init /\ [][NextAck]_vars

\* Ingestion: one request with any body over the ingestion alphabet.
NextIngest == System(IngestRequests, Bodies, ReplyLines)

SpecIngest == Init /\ [][NextIngest]_vars

\* The whole program from the start of main, with one request of one command.
NextBoot ==
    \/ \E result \in ScanResults : Scan(result)
    \/ Sleep
    \/ OpenOk
    \/ OpenErr
    \/ System(IngestRequests, {BatchOf(1)}, {"OK"})

SpecBoot == InitBoot /\ [][NextBoot]_vars

\* The pipeline with a device that answers and no failing write or read, the
\* relay thread and the device taking their steps whenever they can.
NextLive ==
    \/ \E r \in Requests : Arrive(r, PipeBodies)
    \/ \E r \in Requests : HandlerLoop(r)
    \/ \E r \in Requests : HandlerRespond(r)
    \/ RelayRecv
    \/ RelayWrite
    \/ RelayReadLine
    \/ RelayReadTimeout
    \/ DeviceReply("OK")

SpecLive ==
    /\ Init
    /\ [][NextLive]_vars
    /\ WF_vars(RelayRecv)
    /\ WF_vars(RelayWrite)
    /\ WF_vars(RelayReadLine)
    /\ WF_vars(DeviceReply("OK"))

----------------------------------------------------------------------------
(* Vocabulary of the properties *)

IsPrefix(s, t) == Len(s) <= Len(t) /\ \A i \in 1..Len(s) : s[i] = t[i]

\* The entries of a tagged sequence that come from request r.
OfRequest(seq, r) == SelectSeq(seq, LAMBDA m : m.rid = r)

\* The command texts request r has sent on the channel so far.
SentBy(r) ==
    LET e == OfRequest(log, r) IN [i \in 1..Len(e) |-> e[i].cmd]

\* The non-empty lines of a body, read off its bytes: each maximal run of
\* bytes other than LF, in order of position.
LineStarts(b) == {i \in 1..Len(b) : b[i] # LF /\ (i = 1 \/ b[i - 1] = LF)}
LineEnd(b, i) ==
    CHOOSE j \in i..Len(b) :
        /\ \A k \in i..j : b[k] # LF
        /\ j = Len(b) \/ b[j + 1] = LF
NonEmptyLines(b) ==
    [k \in 1..Cardinality(LineStarts(b)) |->
        LET i == CHOOSE x \in LineStarts(b) :
                     Cardinality({y \in LineStarts(b) : y < x}) = k - 1
        IN  SubSeq(b, i, LineEnd(b, i))]

\* The number of writes whose wait has not ended on a line.
InFlight == Len(written) - response.n

----------------------------------------------------------------------------
(* Properties of the relay *)

\* C1: at most one command is in flight on the device.  The number of writes
\* exceeds the number of waits that ended on a response line by at most one,
\* and by one exactly while the relay waits for the response to its last write
\* (or has died waiting); the relay holds a command to write only when no
\* command is in flight.
C1_SingleInFlight ==
    /\ InFlight \in {0, 1}
    /\ rpc = "AwaitingResponse" => InFlight = 1
    /\ rpc \in {"Idle", "Writing"} => InFlight = 0

\* A second command is in flight after a completed exchange, a read of its
\* wait has timed out, and a further command is queued behind it.
C1_Witness ==
    /\ Len(written) >= 2
    /\ rpc = "AwaitingResponse"
    /\ timedOut
    /\ queue # <<>>

C3_WrittenPrefixOfEnqueued ==
    /\ Len(written) <= Len(log)
    /\ \A i \in 1..Len(written) :
          /\ written[i].rid = log[i].rid
          /\ written[i].seg = log[i].seg
          /\ SubSeq(written[i].bytes, 1, Len(written[i].bytes) - 1) = log[i].cmd

\* Three commands, from both requests, have been written and one is queued.
C3_Witness ==
    /\ Len(written) >= 3
    /\ \E i, j \in 1..Len(written) : written[i].rid # written[j].rid
    /\ queue # <<>>

\* C4 as stated, for non-blank lines: a non-blank line taken as the
\* acknowledgment of write N was sent by the device after write N (in reply to
\* command N), never in reply to an earlier command.
C4_AckRepliesToAwaited ==
    (response # NoLine /\ response.text # "") => response.for = response.n

----------------------------------------------------------------------------
(* Properties of the ingestion endpoint *)

Arrived(r) == hpc[r] # "idle"

\* C5: a body that is UTF-8 and holds a carriage return anywhere is answered
\* 400 and none of its lines is ever placed on the channel.
C5_CarriageReturnRejectsBatch ==
    \A r \in Requests :
        (Arrived(r) /\ from_utf8(body[r]) /\ \E i \in 1..Len(body[r]) : body[r][i] = CR)
        => /\ status[r] = 400
           /\ hpc[r] = "done"
           /\ OfRequest(log, r) = <<>>
           /\ OfRequest(queue, r) = <<>>

\* A rejected body in which a complete non-empty line precedes the carriage
\* return.
C5_Witness ==
    \E r \in Requests :
        /\ status[r] = 400
        /\ from_utf8(body[r])
        /\ Len(body[r]) >= 3
        /\ body[r][1] = 97 /\ body[r][2] = LF /\ body[r][3] = CR

\* C6: a body that is not UTF-8 is answered 400 and nothing of it is ever
\* placed on the channel.
C6_InvalidUtf8Rejected ==
    \A r \in Requests :
        (Arrived(r) /\ ~from_utf8(body[r]))
        => /\ status[r] = 400
           /\ hpc[r] = "done"
           /\ OfRequest(log, r) = <<>>
           /\ OfRequest(queue, r) = <<>>

\* A rejected body in which a complete non-empty line precedes the malformed
\* bytes (a lead byte that no continuation byte follows).
C6_Witness ==
    \E r \in Requests :
        /\ status[r] = 400
        /\ body[r] = <<97, LF, 195, 97>>

\* C7: for a UTF-8 body without carriage return, what the request has sent is
\* at every moment a prefix of the body's non-empty lines, in order, the
\* response is never 400, and the 200 is there only when all of them are sent.
C7_EnqueuesNonEmptyLines ==
    \A r \in Requests :
        (Arrived(r) /\ from_utf8(body[r]) /\ \A i \in 1..Len(body[r]) : body[r][i] # CR)
        => /\ IsPrefix(SentBy(r), NonEmptyLines(body[r]))
           /\ status[r] \in {0, 200}
           /\ status[r] = 200 => SentBy(r) = NonEmptyLines(body[r])

\* A request answered 200 whose body holds an empty segment between two
\* commands, sent as two commands.
C7_Witness ==
    \E r \in Requests :
        /\ status[r] = 200
        /\ body[r] = <<97, LF, LF, 97>>
        /\ SentBy(r) = <<(<<97>>), (<<97>>)>>

\* C8: every command on the channel, and the one the relay holds, is non-empty
\* and free of CR and LF; every write is the command's text followed by one
\* CR, the only CR of the write.
CleanCommand(c) == c # <<>> /\ \A i \in 1..Len(c) : c[i] # CR /\ c[i] # LF
C8_CommandsAreCleanLines ==
    /\ \A i \in 1..Len(queue) : CleanCommand(queue[i].cmd)
    /\ \A i \in 1..Len(log) : CleanCommand(log[i].cmd)
    /\ cur # NoCommand => CleanCommand(cur.cmd)
    /\ \A i \in 1..Len(written) :
          LET w == written[i].bytes
          IN  /\ Len(w) = Len(log[i].cmd) + 1
              /\ SubSeq(w, 1, Len(w) - 1) = log[i].cmd
              /\ w[Len(w)] = CR
              /\ Cardinality({k \in 1..Len(w) : w[k] = CR}) = 1

\* Two commands have been written, one of them the two bytes of U+00E9.
C8_Witness ==
    /\ Len(written) = 2
    /\ \E i \in 1..2 : written[i].bytes = <<195, 169, CR>>

----------------------------------------------------------------------------
(* Properties of the order of commands *)

\* The entries of request r in a tagged sequence are in the order of the
\* segments of its body.
InBodyOrder(seq, r) ==
    LET e == OfRequest(seq, r)
    IN  \A i, j \in 1..Len(e) : i < j => e[i].seg < e[j].seg

\* C9: under every interleaving of the handlers, the commands of one request
\* are on the channel, and reach the device, in the order of the lines of its
\* body.
C9_RequestOrderPreserved ==
    \A r \in Requests :
        /\ InBodyOrder(log, r)
        /\ InBodyOrder(queue, r)
        /\ InBodyOrder(written, r)
        /\ IsPrefix(SentBy(r), NonEmptyLines(body[r]))

\* The sends of two requests have alternated (1, 2, 1, 2 or 2, 1, 2, 1) and
\* all four commands have been written.
C9_Witness ==
    /\ Len(log) = 4
    /\ log[1].rid = log[3].rid
    /\ log[2].rid = log[4].rid
    /\ log[1].rid # log[2].rid
    /\ Len(written) = 4

\* C10: when request p had been answered before request q arrived, every
\* command of p is sent before every command of q, the device receives them in
\* that order, and once the device has received a command of q it has
\* received all the commands of p.
C10_SequentialRequestsInOrder ==
    \A p, q \in Requests :
        (Arrived(q) /\ p \in after[q])
        => /\ \A i, j \in 1..Len(log) :
                 (log[i].rid = q /\ log[j].rid = p) => j < i
           /\ \A i, j \in 1..Len(written) :
                 (written[i].rid = q /\ written[j].rid = p) => j < i
           /\ InBodyOrder(written, p) /\ InBodyOrder(written, q)
           /\ OfRequest(written, q) # <<>> =>
                 Len(OfRequest(written, p)) = Len(OfRequest(log, p))
           /\ status[p] = 200 => SentBy(p) = NonEmptyLines(body[p])

\* Two sequential requests of two commands each, all four written.
C10_Witness ==
    \E p, q \in Requests :
        /\ p \in after[q]
        /\ Len(OfRequest(written, p)) = 2
        /\ Len(OfRequest(written, q)) = 2

----------------------------------------------------------------------------
(* Properties of the endpoint and the relay under stalls and failures *)

RelayAlive == rpc \in {"Idle", "Writing", "AwaitingResponse"}

\* C11: the endpoint never waits for the device.  While the relay thread
\* lives, whatever it is doing and however long the channel, a handler in its
\* loop can take its next step (send, skip or answer 200), and a send never
\* fails: a handler panics only once the relay thread is dead.
C11_EnqueueNeverWaits ==
    /\ [](\A r \in Requests :
            (hpc[r] = "loop" /\ RelayAlive)
            => ENABLED (HandlerLoop(r) \/ HandlerRespond(r)))
    /\ [][\A r \in Requests :
            (hpc[r] = "loop" /\ RelayAlive /\ todo'[r] # todo[r] /\ Head(todo[r]) # <<>>)
            => /\ Len(queue') = Len(queue) + 1
               /\ queue'[Len(queue')].cmd = Head(todo[r])
               /\ hpc'[r] = "loop"]_vars

\* Both requests have been answered 200 while the relay waits, after a timeout,
\* for the reply to the first command, with three commands in the channel.
C11_Witness ==
    /\ \A r \in Requests : status[r] = 200
    /\ rpc = "AwaitingResponse"
    /\ timedOut
    /\ Len(written) = 1
    /\ Len(queue) = 3

\* C12 as stated: a handler never fails without responding.
C12_HandlerAlwaysAnswers == \A r \in Requests : hpc[r] # "panicked"

\* C13 as stated, for the read timeout: a read that timed out during the
\* wait has ended the relay worker.
C13_TimeoutEndsWorker == timedOut => rpc = "Dead"

\* C13 as amended: a failed write and an end of input end the relay thread, and
\* nothing else does; the thread once dead stays dead, writes nothing more and
\* its channel is gone; a write either succeeds or ends the thread (no retry, no
\* skip); a read that times out leaves the relay waiting for the same command.
C13_WriteFailureAndEofEndWorker ==
    [][/\ rpc = "Dead" => (rpc' = "Dead" /\ written' = written /\ queue' = <<>>)
       /\ rpc = "Writing" =>
             \/ rpc' = "Writing" /\ written' = written
             \/ rpc' = "AwaitingResponse" /\ Len(written') = Len(written) + 1
             \/ rpc' = "Dead"
       /\ (rpc # "Dead" /\ rpc' = "Dead") =>
             /\ written' = written
             /\ queue' = <<>>
             /\ rpc = "Writing" \/ (rpc = "AwaitingResponse" /\ rx = <<>>)
       /\ (~timedOut /\ timedOut') =>
             /\ rpc' = "AwaitingResponse"
             /\ cur' = cur
             /\ written' = written
             /\ queue' = queue]_vars

\* The relay thread is dead after a wait for the second command that saw a
\* timeout; two accepted commands were never written.
C13_Witness ==
    /\ rpc = "Dead"
    /\ timedOut
    /\ Len(written) = 2
    /\ Len(log) = 4

\* C14: while the device sends nothing, the relay stays in the wait.  A step
\* taken while the relay waits with no input, other than the end of the
\* thread on an end of input, leaves it waiting for the same command, writes
\* nothing and removes nothing from the channel.
C14_SilentDeviceStallsRelay ==
    [][(rpc = "AwaitingResponse" /\ rx = <<>> /\ rx' = <<>> /\ rpc' # "Dead")
       => /\ rpc' = "AwaitingResponse"
          /\ cur' = cur
          /\ written' = written
          /\ IsPrefix(queue, queue')]_vars

\* The second command is unanswered after a timeout and two commands wait
\* behind it.
C14_Witness ==
    /\ rpc = "AwaitingResponse"
    /\ timedOut
    /\ rx = <<>>
    /\ response.n = 1
    /\ Len(written) = 2
    /\ Len(queue) = 2

----------------------------------------------------------------------------
(* Properties of the discovery *)

\* The ports of the scan of this iteration, none if the scan failed.
Listed == IF scan.ok THEN scan.ports ELSE <<>>

\* The string holds the marker: its characters, in order, from some position.
HasMarker(str) ==
    \E k \in 1..Len(str) :
        \A i \in 1..Len(Marker) : k + i - 1 <= Len(str) /\ str[k + i - 1] = Marker[i]

\* A USB port whose product string is present and holds the marker.
IsBoard(p) == p.port_type = "UsbPort" /\ p.product # <<>> /\ HasMarker(p.product[1])

\* The relay thread does not exist, no request has been taken, nothing has
\* been sent on the channel or written to a port.
PipelineUntouched ==
    /\ rpc = "NotStarted"
    /\ \A r \in Requests : hpc[r] = "idle" /\ status[r] = 0
    /\ queue = <<>>
    /\ log = <<>>
    /\ written = <<>>

\* C15: discovery blocks the start.  Until a port is open the relay thread is
\* not started, no request is taken and nothing is written.  A scan in which
\* nothing matches, a failed scan included, is followed by the sleep and the
\* next scan, never by a failure; a scan in which a port matches ends the
\* scanning with a matching port of that scan selected.
C15_DiscoveryBlocksStartup ==
    /\ [](/\ boot \in {"Scanning", "Sleeping", "Opening"} => PipelineUntouched
          /\ boot = "Sleeping" =>
                \A i \in 1..Len(Listed) : ~port_filter(device, Listed[i])
          /\ boot = "Opening" =>
                /\ selected # <<>>
                /\ port_filter(device, selected[1])
                /\ \E i \in 1..Len(Listed) : Listed[i] = selected[1])
    /\ [][/\ (boot = "Scanning" /\ boot' # boot) =>
                LET ports == IF scan'.ok THEN scan'.ports ELSE <<>>
                IN  boot' = IF \E i \in 1..Len(ports) : port_filter(device, ports[i])
                            THEN "Opening"
                            ELSE "Sleeping"
          /\ boot = "Sleeping" => boot' \in {"Sleeping", "Scanning"}
          /\ boot = "Opening" => boot' # "Scanning"]_vars

\* A scan has failed and the locator sleeps before the next one.
C15_Witness ==
    /\ boot = "Sleeping"
    /\ ~scan.ok
    /\ PipelineUntouched

\* C16: a matched port that cannot be opened aborts the process with the
\* diagnostic naming it.  From the open there is no way back to the scan and
\* the selected port does not change; after the abort nothing happens: the
\* relay thread and the listener are never started.
C16_OpenFailureAborts ==
    /\ [](boot = "Aborted" =>
            /\ PipelineUntouched
            /\ selected # <<>>
            /\ panic_message = <<"Could not create port on ", selected[1].port_name>>)
    /\ [][/\ boot = "Opening" =>
                (boot' \in {"Opening", "Running", "Aborted"} /\ selected' = selected)
          /\ boot # "Aborted"]_vars

\* The port ttyS0, named on the command line, did not open.
C16_Witness ==
    /\ boot = "Aborted"
    /\ device = <<"ttyS0">>
    /\ panic_message = <<"Could not create port on ", "ttyS0">>

\* C17: with a port name given, a port is selected exactly when its name is
\* that name: the first listed port of that name is selected whatever its type
\* and product, and a port of another name never, board or not.
C17_ExplicitNameSelectsByName ==
    device # <<>> =>
        /\ boot = "Sleeping" => \A i \in 1..Len(Listed) : Listed[i].port_name # device[1]
        /\ boot = "Opening" =>
              \E i \in 1..Len(Listed) :
                  /\ Listed[i].port_name = device[1]
                  /\ selected = <<Listed[i]>>
                  /\ \A j \in 1..(i - 1) : Listed[j].port_name # device[1]
        /\ selected # <<>> => selected[1].port_name = device[1]

\* The named port ttyS0, not a USB port, is selected though a board on
\* another port is listed before it.
C17_Witness ==
    /\ boot = "Opening"
    /\ device = <<"ttyS0">>
    /\ Len(Listed) = 2
    /\ Listed[1] = BoardPort
    /\ selected = <<OtherPort("ttyS0", "PciPort")>>

\* C18: with no port name given, the selected port is the first port of the
\* scan that is a USB port with a product string holding the marker; a port
\* that is not USB, a USB port without product string and a USB port whose
\* product string lacks the marker are never selected.
C18_AutoDetectSelectsFirstBoard ==
    device = <<>> =>
        /\ boot = "Sleeping" => \A i \in 1..Len(Listed) : ~IsBoard(Listed[i])
        /\ boot = "Opening" =>
              \E i \in 1..Len(Listed) :
                  /\ IsBoard(Listed[i])
                  /\ selected = <<Listed[i]>>
                  /\ \A j \in 1..(i - 1) : ~IsBoard(Listed[j])
        /\ selected # <<>> => IsBoard(selected[1])

\* Two boards are listed and the first, whose product string holds the marker
\* inside a longer string, is selected.
C18_Witness ==
    /\ boot = "Opening"
    /\ device = <<>>
    /\ Len(Listed) = 2
    /\ Listed[1] = UsbPort("ttyS0", << <<"x">> \o Marker \o <<"y">> >>)
    /\ Listed[2] = BoardPort
    /\ selected = <<Listed[1]>>

----------------------------------------------------------------------------
(* Progress and requests in parallel *)

\* C19: with a device that answers and no failing write or read, under weak
\* fairness of the relay thread and the device, every command placed on the
\* channel is eventually written, and every wait ends with the relay back at
\* its receive.
C19_EveryCommandEventuallyWritten ==
    /\ \A i \in 1..(2 * MaxBatch) : (Len(log) >= i) ~> (Len(written) >= i)
    /\ (rpc = "AwaitingResponse") ~> (rpc = "Idle")
    /\ (queue # <<>>) ~> (queue = <<>>)

\* Four commands were accepted, all are written and the relay is idle.
C19_Witness ==
    /\ Len(log) = 4
    /\ Len(written) = 4
    /\ rpc = "Idle"
    /\ queue = <<>>

\* C20 as stated: the commands of two requests never interleave on the
\* channel: no command of one request lies between two commands of the other.
C20_BatchesNeverInterleave ==
    \A i, j, k \in 1..Len(log) :
        (i < j /\ j < k /\ log[i].rid = log[k].rid) => log[j].rid = log[i].rid

====
